---- MODULE Spec2Model ----
(***************************************************************************)
(* Review ingestion-and-response pipeline of autootvet:                    *)
(*   backend/app/services/review_processor.py  (ReviewProcessor)           *)
(*   backend/app/services/wildberries_api.py   (WildberriesAPI)            *)
(*   backend/app/services/ozon_api.py          (OzonAPI)                   *)
(*   backend/app/services/llm_service.py       (LLMService)                *)
(*   backend/app/db/models.py                  (tables)                    *)
(*   backend/app/api/endpoints.py              (get_stats)                 *)
(*                                                                         *)
(* Conventions.  A nullable value is a sequence of length 0 or 1: <<>> is  *)
(* NULL / None and <<v>> is the value v.  A reply text is represented by   *)
(* its length (the code reads nothing else of it).  Review texts and       *)
(* keywords are sequences of one-character strings.  A timestamp is kept   *)
(* relative to the start of the latest batch: <<1>> was written since that *)
(* start, <<0>> before it (datetime.utcnow() is only ever stored).         *)
(***************************************************************************)
EXTENDS Integers, Sequences, FiniteSets, TLC

\* ---------------------------------------------------------------- bounds
\* Records the marketplaces return over a whole run, all fetches together.
MaxFetched == 3

\* ------------------------------------------------------ program constants
MinReplyLen == 2
MaxReplyLen == 5000
ModerationRatingMax == 3
\* Page sizes of the listing requests (defaults of get_feedbacks / get_reviews).
WBTake == 5000
OzonLimit == 100

Procs == {1, 2}
AccountIds == {1, 2, 3}

SeqsUpTo(S, n) == UNION {[1..k -> S] : k \in 0..n}

\* ------------------------------------------------------------ str.lower()
Lower(c) ==
  IF c = "A" THEN "a" ELSE IF c = "B" THEN "b" ELSE c

LowerStr(s) == [i \in 1..Len(s) |-> Lower(s[i])]

\* Python `kw in text` on strings: substring test; the empty string is in
\* every string.
Contains(kw, text) ==
  \E i \in 0..(Len(text) - Len(kw)) : \A j \in 1..Len(kw) : text[i + j] = kw[j]

\* Python truthiness of an Optional[str] / Optional[list]: None and the empty
\* value are both false.
TextOrEmpty(t) == IF t = <<>> THEN <<>> ELSE t[1]

\* ------------------------------------------------ _should_process_review
\* A matcher that lets every review through to the generation.
should_process_review_all(review, rule) == TRUE

\* A matcher that lowers the review text but not the keywords.
should_process_review_cased(review, rule) ==
  IF ~(rule.min_rating <= review.rating /\ review.rating <= rule.max_rating)
  THEN FALSE
  ELSE LET review_text == LowerStr(TextOrEmpty(review.text)) IN
       IF /\ rule.keywords_include # <<>>
          /\ ~(\E k \in DOMAIN rule.keywords_include :
                 Contains(rule.keywords_include[k], review_text))
       THEN FALSE
       ELSE IF /\ rule.keywords_exclude # <<>>
               /\ \E k \in DOMAIN rule.keywords_exclude :
                    Contains(rule.keywords_exclude[k], review_text)
            THEN FALSE
            ELSE TRUE

should_process_review(review, rule) ==
  IF ~(rule.min_rating <= review.rating /\ review.rating <= rule.max_rating)
  THEN FALSE
  ELSE LET review_text == LowerStr(TextOrEmpty(review.text)) IN
       IF /\ rule.keywords_include # <<>>
          /\ ~(\E k \in DOMAIN rule.keywords_include :
                 Contains(LowerStr(rule.keywords_include[k]), review_text))
       THEN FALSE
       ELSE IF /\ rule.keywords_exclude # <<>>
               /\ \E k \in DOMAIN rule.keywords_exclude :
                    Contains(LowerStr(rule.keywords_exclude[k]), review_text)
            THEN FALSE
            ELSE TRUE

\* ------------------------------------------------------- moderation gate
\* A gate that lets the boundary rating through.
NeedsModerationBelow(rule, rating) ==
  rule.require_moderation \/ rating < ModerationRatingMax

\* A gate that looks at the rule only.
NeedsModerationByRule(rule, rating) == rule.require_moderation

\* A gate that looks at the rating only.
NeedsModerationByRating(rule, rating) == rating <= ModerationRatingMax

\* review_processor.py:171  `rules.require_moderation or review.rating <= 3`
NeedsModeration(rule, rating) ==
  rule.require_moderation \/ rating <= ModerationRatingMax

\* A toggle that is read as on whatever its value.
AutoSendAlways(toggle) == TRUE

\* review_processor.py:177  `if settings.AUTO_SEND_RESPONSES:`
AutoSend(toggle) == toggle

\* -------------------------------------------------------- marketplace ids
\* str(id) of ozon_api.py:133 and int(external_id) of review_processor.py:241,
\* on the ids the catalogue uses.  str(None) is "None"; int("None") raises.
StrOfId(x) == IF x = <<>> THEN "None" ELSE IF x[1] = 101 THEN "101"
              ELSE IF x[1] = 102 THEN "102" ELSE "103"
IntParses(s) == s \in {"101", "102", "103"}

\* Raw records the marketplaces hold.  Wildberries ids are strings, Ozon ids
\* are integers.  rank is the record's place in the marketplace's listing of
\* the account's reviews when the run begins (the client never reads it).
WBRaw ==
  { [id |-> <<"101">>, rating |-> <<5>>, text |-> << <<"A", "b">> >>, rank |-> 1],
    [id |-> <<"102">>, rating |-> <<2>>, text |-> << <<>> >>, rank |-> 2] }
OzonRaw ==
  { [id |-> <<101>>, rating |-> <<5>>, text |-> <<>>, rank |-> 1] }

\* WildberriesAPI.parse_feedback
parse_feedback(raw) ==
  [ external_id |-> raw.id,
    rating      |-> IF raw.rating = <<>> THEN 0 ELSE raw.rating[1],
    text        |-> IF raw.text = <<>> THEN << <<>> >> ELSE raw.text ]

\* OzonAPI.parse_review
parse_review(raw) ==
  [ external_id |-> <<StrOfId(raw.id)>>,
    rating      |-> IF raw.rating = <<>> THEN 0 ELSE raw.rating[1],
    text        |-> IF raw.text = <<>> THEN << <<>> >> ELSE raw.text ]


\* ------------------------------------------------------- LLMService
\* LLMService.PROVIDER_COSTS: (input, output) per 1M tokens, in tenths of a
\* rouble (the table's 7.5 is 75).
PROVIDER_COSTS ==
  [ openai     |-> <<150, 600>>,
    anthropic  |-> <<250, 1250>>,
    google     |-> <<75, 300>>,
    gigachat   |-> <<1600, 960>>,
    yandexgpt  |-> <<2000, 1200>>,
    perplexity |-> <<200, 200>>,
    ollama     |-> <<0, 0>> ]

\* The same sum with the two rates exchanged.
calculate_cost_swapped(provider, input_tokens, output_tokens) ==
  IF provider \notin DOMAIN PROVIDER_COSTS
  THEN 0
  ELSE input_tokens * PROVIDER_COSTS[provider][2]
         + output_tokens * PROVIDER_COSTS[provider][1]

\* LLMService._calculate_cost.  The result is in units of 10^-7 rouble:
\* (tokens / 10^6) * (rate / 10), exactly (the code's binary floating point
\* rounds the same quantity).
calculate_cost(provider, input_tokens, output_tokens) ==
  IF provider \notin DOMAIN PROVIDER_COSTS
  THEN 0
  ELSE LET input_cost_per_1m  == PROVIDER_COSTS[provider][1]
           output_cost_per_1m == PROVIDER_COSTS[provider][2]
       IN input_tokens * input_cost_per_1m + output_tokens * output_cost_per_1m

\* What litellm.completion can do: raise, or return a message whose content
\* is None, "" or a text, with the usage it reports.
ProviderReplies ==
  { [raises |-> TRUE,  content |-> <<>>,  prompt_tokens |-> 0,    completion_tokens |-> 0,
     total_tokens |-> 0],
    [raises |-> FALSE, content |-> <<>>,  prompt_tokens |-> 1000, completion_tokens |-> 0,
     total_tokens |-> 1000],
    [raises |-> FALSE, content |-> <<0>>, prompt_tokens |-> 1000, completion_tokens |-> 0,
     total_tokens |-> 1000],
    [raises |-> FALSE, content |-> <<2>>, prompt_tokens |-> 1000, completion_tokens |-> 500,
     total_tokens |-> 1500] }

\* LLMService.generate_response.  The f-string of line 104 takes
\* len(response_text), which raises TypeError for a None content; the empty
\* string passes.
generate_response(provider, reply) ==
  IF reply.raises \/ reply.content = <<>>
  THEN [ok |-> FALSE, response_text |-> <<>>, tokens_used |-> <<>>, cost_rub |-> <<>>]
  ELSE [ok |-> TRUE,
        response_text |-> reply.content,
        tokens_used   |-> <<reply.total_tokens>>,
        cost_rub      |-> <<calculate_cost(provider, reply.prompt_tokens,
                                           reply.completion_tokens)>>]

\* ------------------------------------------------ marketplace clients
\* WildberriesAPI.send_feedback_answer: the rate-limit sleep, the length
\* check, then the POST.  `accepted` is the marketplace's answer to the POST.
send_feedback_answer(len, accepted) ==
  IF len < MinReplyLen \/ len > MaxReplyLen
  THEN [slept |-> TRUE, issued |-> FALSE, ok |-> FALSE]
  ELSE [slept |-> TRUE, issued |-> TRUE, ok |-> accepted]

\* A submit that does not look at the status of the marketplace's answer.
send_review_answer_unchecked(len, accepted) ==
  [slept |-> FALSE, issued |-> TRUE, ok |-> TRUE]

\* OzonAPI.send_review_answer: the POST, no check of the text.
send_review_answer(len, accepted) ==
  [slept |-> FALSE, issued |-> TRUE, ok |-> accepted]

\* A client that is closed after the call only if the call returned.
client_after_call_unguarded(open, returned) == IF returned THEN open - 1 ELSE open

\* review_processor.py:91-92, 100-101, 234-235, 242-243: the finally closes
\* the client whether the call returned or raised.  `open` counts the
\* clients the processor holds open.
client_after_call(open, returned) == open - 1

\* The call made by ReviewProcessor._send_response for one review: which
\* client, and int(external_id) for Ozon.  An account of another kind takes
\* neither branch and the method goes on as after a success.
SubmitCall(marketplace, external_id, len, accepted) ==
  IF marketplace = "wildberries" THEN send_feedback_answer(len, accepted)
  ELSE IF marketplace = "ozon"
       THEN IF IntParses(external_id[1])
            THEN send_review_answer(len, accepted)
            ELSE [slept |-> FALSE, issued |-> FALSE, ok |-> FALSE]
       ELSE [slept |-> FALSE, issued |-> FALSE, ok |-> TRUE]

\* ------------------------------------------------------------ tables
\* A new row that starts with the moderation status auto.
NewReviewAuto(account_id, review_data, now) ==
  [ marketplace_account_id |-> account_id,
    external_id       |-> review_data.external_id,
    rating            |-> review_data.rating,
    text              |-> review_data.text,
    created_at        |-> now,
    processed         |-> FALSE,
    response_text     |-> <<>>,
    response_sent     |-> FALSE,
    sent_at           |-> <<>>,
    moderation_status |-> "auto",
    tokens_used       |-> <<>>,
    cost_rub          |-> <<>> ]

\* Review(...) of review_processor.py:134-143 with the column defaults of
\* models.py:101-110.
NewReview(account_id, review_data, now) ==
  [ marketplace_account_id |-> account_id,
    external_id       |-> review_data.external_id,
    rating            |-> review_data.rating,
    text              |-> review_data.text,
    created_at        |-> now,
    processed         |-> FALSE,
    response_text     |-> <<>>,
    response_sent     |-> FALSE,
    sent_at           |-> <<>>,
    moderation_status |-> "pending",
    tokens_used       |-> <<>>,
    cost_rub          |-> <<>> ]

\* A commit that ends the table before the first row the session holds a
\* pending change for.
FlushDropping(rows, d) ==
  IF DOMAIN d = {} THEN rows
  ELSE SubSeq(rows, 1, (CHOOSE i \in DOMAIN d : \A j \in DOMAIN d : i <= j) - 1)

\* Session.commit(): every pending change of the session reaches the table.
\* `d` maps row ids to the session's uncommitted version of the row.
Flush(rows, d) ==
  [i \in DOMAIN rows |-> IF i \in DOMAIN d THEN d[i] ELSE rows[i]]

\* The recorded ids of every account, not of the one account.
existing_ids_all(rows, account_id) ==
  {rows[i].external_id : i \in DOMAIN rows}

\* An update that also switches the account off.
touch_account_off(acct, now) == [acct EXCEPT !.last_sync = now, !.is_active = FALSE]

\* review_processor.py:114  account.last_sync = datetime.utcnow()
touch_account(acct, now) == [acct EXCEPT !.last_sync = now]

\* review_processor.py:107-109
existing_ids(rows, account_id) ==
  {rows[i].external_id : i \in {j \in DOMAIN rows : rows[j].marketplace_account_id = account_id}}

\* The fetched list handed on as it came, nothing filtered out.
new_reviews_unfiltered(parsed, existing) == parsed

\* review_processor.py:111
new_reviews(parsed, existing) ==
  SelectSeq(parsed, LAMBDA r : r.external_id \notin existing)

\* A rule lookup that leaves out the is_active filter.
FirstRule(ruleRows, user_id) ==
  LET hits == {i \in DOMAIN ruleRows : ruleRows[i].user_id = user_id}
  IN IF hits = {} THEN 0 ELSE CHOOSE i \in hits : \A j \in hits : i <= j

\* A rule query that leaves out the user_id filter.
FirstActiveRuleAnyUser(ruleRows, user_id) ==
  LET hits == {i \in DOMAIN ruleRows : ruleRows[i].is_active}
  IN IF hits = {} THEN 0 ELSE CHOOSE i \in hits : \A j \in hits : i <= j

\* review_processor.py:57-60  .filter(user_id, is_active).first(); 0 is None.
FirstActiveRule(ruleRows, user_id) ==
  LET hits == {i \in DOMAIN ruleRows :
                 ruleRows[i].user_id = user_id /\ ruleRows[i].is_active}
  IN IF hits = {} THEN 0 ELSE CHOOSE i \in hits : \A j \in hits : i <= j

\* An account query that leaves out the is_active filter.
AllAccounts(accts) ==
  LET F[S \in SUBSET DOMAIN accts] ==
        IF S = {} THEN <<>>
        ELSE LET m == CHOOSE x \in S : \A y \in S : x <= y
             IN <<m>> \o F[S \ {m}]
  IN F[DOMAIN accts]

\* review_processor.py:26-28; rows come back in primary-key order.
ActiveAccounts(accts) ==
  LET act == {a \in DOMAIN accts : accts[a].is_active}
      F[S \in SUBSET act] ==
        IF S = {} THEN <<>>
        ELSE LET m == CHOOSE x \in S : \A y \in S : x <= y
             IN <<m>> \o F[S \ {m}]
  IN F[act]

\* A dispatch that takes every account for one of the two marketplaces.
known_marketplace_any(marketplace) == TRUE

\* review_processor.py:86, 94, 102: the if / elif / else on account.marketplace.
known_marketplace(marketplace) == marketplace \in {"wildberries", "ozon"}

\* The two loops: where control goes after an iteration, and after an
\* iteration that raised (process_all_accounts:33-36, process_account:67-71).
AccountLoopNext(idx, n) == idx + 1
\* An account loop that lets the exception end the batch.
AccountLoopAbort(idx, n) == n + 1
AccountLoopOnError(idx, n) == idx + 1
ReviewLoopNext(q) == Tail(q)
\* A review loop that lets the exception end the account's reviews.
ReviewLoopAbort(q) == <<>>
\* A review loop that puts the failed review to the test again.
ReviewLoopRetry(q) == q
ReviewLoopOnError(q) == Tail(q)


\* ================================================================ state
VARIABLES
  AUTO_SEND_RESPONSES,  \* settings.AUTO_SEND_RESPONSES
  LLM_PROVIDER,         \* settings.LLM_PROVIDER
  upstream,             \* per account: the raw records its marketplace holds
  accounts,             \* table marketplace_accounts: id -> row
  rules,                \* table review_rules: sequence of rows
  reviews,              \* table reviews (committed rows), id = position
  dirty,                \* per processor: its session's uncommitted row versions
  answered,             \* per account: external ids the marketplace holds as answered
  proc,                 \* per processor: position (pc) and locals of the running batch
  calls,                \* history, per review row: calls made for it
  runs,                 \* history, per account: what its latest fetch returned
  last,                 \* history: the latest fetch, and the one before for that account
  fetchFailed,          \* history: accounts whose fetch raised in the latest batch
  fetched               \* history: records the marketplaces have returned so far

vars == <<AUTO_SEND_RESPONSES, LLM_PROVIDER, upstream, accounts, rules, reviews, dirty, answered, proc,
          calls, runs, last, fetchFailed, fetched>>

\* Rules the administrative surface can have stored (user 1 owns the accounts).
RuleSet ==
  { [user_id |-> 1, min_rating |-> 1, max_rating |-> 5, keywords_include |-> <<>>,
     keywords_exclude |-> << <<"Z">> >>, require_moderation |-> FALSE],
    [user_id |-> 1, min_rating |-> 4, max_rating |-> 5, keywords_include |-> << <<"A">> >>,
     keywords_exclude |-> <<>>, require_moderation |-> TRUE] }

WithActive(r, b) ==
  [user_id |-> r.user_id, is_active |-> b, min_rating |-> r.min_rating,
   max_rating |-> r.max_rating, keywords_include |-> r.keywords_include,
   keywords_exclude |-> r.keywords_exclude, require_moderation |-> r.require_moderation]

\* client: the marketplace clients the processor holds open.
IdleProc ==
  [pc |-> "idle", acctList |-> <<>>, ai |-> 0, queue |-> <<>>, rule |-> 0, cur |-> 0,
   client |-> 0]

NoRun == [ids |-> {}, ruled |-> FALSE]
NoLast == [account |-> 0, hasPrev |-> FALSE, prevIds |-> {}, prevRuled |-> FALSE,
           status |-> 0, fields |-> {}, slept |-> FALSE]

\* matched: the rule matcher returned true; gen / send: calls of
\* generate_response / of the client's submit method; gen_ok: a reply text
\* came back; usage: the (prompt, completion) token counts that came with
\* it; cost: the cost_rub that came with it; posts: submit requests that
\* went out; slept: the latest submit call made its rate-limit sleep; len:
\* the length of the text handed to the submit method; *_at: when last.
NoCalls == [matched |-> FALSE, gen |-> 0, gen_ok |-> FALSE, gen_at |-> <<>>,
            usage |-> <<>>, cost |-> <<>>, send |-> 0, send_at |-> <<>>, posts |-> 0,
            slept |-> FALSE, len |-> <<>>]

\* datetime.utcnow() during the running batch, and what a stored timestamp
\* reads as once a later batch has started.
Now == <<1>>
Aged(t) == IF t = <<>> THEN <<>> ELSE <<0>>

Init ==
  /\ AUTO_SEND_RESPONSES \in BOOLEAN
  /\ LLM_PROVIDER = "gigachat"
  /\ upstream = [a \in AccountIds |->
       IF a = 1 THEN WBRaw ELSE IF a = 3 THEN OzonRaw ELSE {}]
  /\ accounts = [a \in AccountIds |->
       [marketplace |-> IF a = 1 THEN "wildberries"
                        ELSE IF a = 2 THEN "yandex" ELSE "ozon",
        api_key_encrypted |-> "key", user_id |-> 1, is_active |-> TRUE,
        last_sync |-> <<>>]]
  /\ \E r \in RuleSet, b \in BOOLEAN : rules = <<WithActive(r, b)>>
  /\ reviews = <<>>
  /\ dirty = [p \in Procs |-> <<>>]
  /\ answered = [a \in AccountIds |-> {}]
  /\ proc = [p \in Procs |-> IdleProc]
  /\ calls = <<>>
  /\ runs = [a \in AccountIds |-> NoRun]
  /\ last = NoLast
  /\ fetchFailed = {}
  /\ fetched = 0

\* ------------------------------------------------------------ helpers
\* The marketplace's unanswered reviews of an account, as raw records.
Upstream(a) == upstream[a]
Parse(a, raw) ==
  IF accounts[a].marketplace = "wildberries" THEN parse_feedback(raw) ELSE parse_review(raw)
Unanswered(a) ==
  {raw \in Upstream(a) : LET e == Parse(a, raw).external_id
                         IN e = <<>> \/ e[1] \notin answered[a]}

\* The listing request of get_unanswered_feedbacks / get_unanswered_reviews:
\* the defaults of get_feedbacks / get_reviews; one request per fetch.
ListingRequest(marketplace) ==
  IF marketplace = "wildberries"
  THEN [take |-> WBTake, skip |-> 0]
  ELSE [take |-> OzonLimit, skip |-> 0]

\* Where a record stands among the account's unanswered reviews now: the
\* reviews answered since the run began have left the listing.
CurrentRank(a, raw) ==
  raw.rank - Cardinality({r \in Upstream(a) \ Unanswered(a) : r.rank < raw.rank})

\* The unanswered reviews on the page the listing request asks for.
Listed(a) ==
  LET q == ListingRequest(accounts[a].marketplace)
  IN {raw \in Unanswered(a) :
        q.skip < CurrentRank(a, raw) /\ CurrentRank(a, raw) <= q.skip + q.take}

\* An HTTP response: its status and its body as response.json() reads it,
\* <<>> when the body is not JSON.  A JSON object is a record.
WBResponse(items) ==
  [status |-> 200, json |-> <<[data |-> [feedbacks |-> items]]>>]
OzonResponse(items) ==
  [status |-> 200, json |-> <<[result |-> [reviews |-> items]]>>]

\* Responses that do not carry a review list: an error status, a body that
\* is not JSON, an object without the container field, and a container
\* without the list field.
BadResponses(a) ==
  { [status |-> 500, json |-> <<>>],
    [status |-> 200, json |-> <<>>],
    [status |-> 200, json |-> <<[error |-> TRUE]>>],
    IF accounts[a].marketplace = "wildberries"
    THEN [status |-> 200, json |-> <<[data |-> [countUnanswered |-> 0]]>>]
    ELSE [status |-> 200, json |-> <<[result |-> [has_next |-> FALSE]]>>] }

\* WildberriesAPI.get_feedbacks: the rate-limit sleep, the request, then
\* raise_for_status, response.json() and
\* data.get("data", {}).get("feedbacks", []).  slept: the call made its
\* rate-limit sleep before the request went out.
get_feedbacks(response) ==
  IF response.status \notin 200..299 \/ response.json = <<>>
  THEN [raises |-> TRUE, list |-> <<>>, slept |-> TRUE]
  ELSE LET data      == response.json[1]
           container == IF "data" \in DOMAIN data THEN data.data ELSE <<>>
           feedbacks == IF "feedbacks" \in DOMAIN container
                        THEN container.feedbacks ELSE <<>>
       IN [raises |-> FALSE, list |-> feedbacks, slept |-> TRUE]

\* A get_reviews that does not raise for an error status or a body that is
\* not JSON and returns the empty list for it.
get_reviews_lenient(response) ==
  IF response.status \notin 200..299 \/ response.json = <<>>
  THEN [raises |-> FALSE, list |-> <<>>, slept |-> FALSE]
  ELSE LET data      == response.json[1]
           container == IF "result" \in DOMAIN data THEN data.result ELSE <<>>
           reviews_  == IF "reviews" \in DOMAIN container
                        THEN container.reviews ELSE <<>>
       IN [raises |-> FALSE, list |-> reviews_, slept |-> FALSE]

\* OzonAPI.get_reviews: the request (nothing sleeps before it), then
\* raise_for_status, response.json() and
\* data.get("result", {}).get("reviews", []).
get_reviews(response) ==
  IF response.status \notin 200..299 \/ response.json = <<>>
  THEN [raises |-> TRUE, list |-> <<>>, slept |-> FALSE]
  ELSE LET data      == response.json[1]
           container == IF "result" \in DOMAIN data THEN data.result ELSE <<>>
           reviews_  == IF "reviews" \in DOMAIN container
                        THEN container.reviews ELSE <<>>
       IN [raises |-> FALSE, list |-> reviews_, slept |-> FALSE]

\* The client call that _fetch_new_reviews makes for account a.
FetchCall(a, response) ==
  IF accounts[a].marketplace = "wildberries"
  THEN get_feedbacks(response) ELSE get_reviews(response)

\* The expected fields that the body of a response has, container first.
PayloadFields(response) ==
  IF response.json = <<>> THEN {}
  ELSE LET data == response.json[1] IN
       (DOMAIN data \cap {"data", "result"})
         \cup (IF "data" \in DOMAIN data THEN DOMAIN data.data \cap {"feedbacks"} ELSE {})
         \cup (IF "result" \in DOMAIN data THEN DOMAIN data.result \cap {"reviews"} ELSE {})

\* The lists a fetch can return: the unanswered reviews of the requested
\* page in any order, any of them missing; with `repeats`, a record may come
\* more than once.
FetchLists(a, repeats) ==
  {s \in SeqsUpTo(Listed(a), MaxFetched - fetched) :
     repeats \/ \A i, j \in DOMAIN s : s[i] = s[j] => i = j}

\* The responses the marketplace can give to a fetch for account a; with
\* `bad`, those that carry no review list are among them.
Responses(a, repeats, bad) ==
  {IF accounts[a].marketplace = "wildberries" THEN WBResponse(raws) ELSE OzonResponse(raws) :
     raws \in FetchLists(a, repeats)}
    \cup (IF bad THEN BadResponses(a) ELSE {})

\* What the ORM object of row i reads as in processor p's session.
View(p, i) == IF i \in DOMAIN dirty[p] THEN dirty[p][i] ELSE reviews[i]

AgedRow(r) == [r EXCEPT !.created_at = Aged(@), !.sent_at = Aged(@)]

\* Control after the current account: the next one, or the end of the batch.
ToAccount(pr, idx) ==
  IF idx <= Len(pr.acctList)
  THEN [pr EXCEPT !.pc = "fetching", !.ai = idx, !.queue = <<>>, !.rule = 0, !.cur = 0]
  ELSE [IdleProc EXCEPT !.client = pr.client]

\* Control after one review: the next one, or the next account.
ToReview(pr, q) ==
  IF q # <<>>
  THEN [pr EXCEPT !.pc = "review", !.queue = q, !.cur = 0]
  ELSE ToAccount(pr, AccountLoopNext(pr.ai, Len(pr.acctList)))

\* asyncio: a coroutine runs until it awaits; the awaits are the fetch and
\* the submit.  No other processor is in the middle of synchronous code.
CanRun(p) == \A q \in Procs \ {p} : proc[q].pc # "review"

\* ------------------------------------------------------------ actions
\* process_all_accounts up to the first await (the fetch of the first
\* account).  Every stored timestamp now lies before the latest batch start.
\* The session is the one the caller gave the processor (__init__): the one
\* of the batch before, pending changes and all, or a new one.
StartBatch(p) ==
  /\ proc[p].pc = "idle"
  /\ CanRun(p)
  /\ fetched < MaxFetched
  /\ LET lst == ActiveAccounts(accounts)
         pr  == [IdleProc EXCEPT !.acctList = lst]
     IN proc' = [proc EXCEPT ![p] = ToAccount(pr, 1)]
  /\ accounts' = [a \in DOMAIN accounts |-> [accounts[a] EXCEPT !.last_sync = Aged(@)]]
  /\ reviews' = [i \in DOMAIN reviews |-> AgedRow(reviews[i])]
  /\ \E sameSession \in BOOLEAN :
       dirty' = [q \in Procs |->
                   IF q = p /\ ~sameSession THEN <<>>
                   ELSE [i \in DOMAIN dirty[q] |-> AgedRow(dirty[q][i])]]
  /\ calls' = [i \in DOMAIN calls |->
                 [calls[i] EXCEPT !.gen_at = Aged(@), !.send_at = Aged(@)]]
  /\ fetchFailed' = {}
  /\ last' = NoLast
  /\ UNCHANGED <<AUTO_SEND_RESPONSES, LLM_PROVIDER, upstream, rules, answered, runs, fetched>>

\* _fetch_new_reviews raises (the request, the status, the JSON or a parse):
\* the finally closes the client and process_all_accounts catches.
FetchFails(p) ==
  /\ proc[p].pc = "fetching"
  /\ CanRun(p)
  /\ LET a == proc[p].acctList[proc[p].ai] IN
       /\ known_marketplace(accounts[a].marketplace)
       /\ \E response \in BadResponses(a) : FetchCall(a, response).raises
       /\ fetchFailed' = fetchFailed \cup {a}
       /\ proc' = [proc EXCEPT ![p] =
            ToAccount([proc[p] EXCEPT !.client = client_after_call(@ + 1, FALSE)],
                      AccountLoopOnError(proc[p].ai, Len(proc[p].acctList)))]
  /\ UNCHANGED <<AUTO_SEND_RESPONSES, LLM_PROVIDER, upstream, accounts, rules, reviews, dirty, answered,
                 calls, runs, last, fetched>>

\* _fetch_new_reviews for an account of another kind: logs and returns [].
FetchUnknown(p) ==
  /\ proc[p].pc = "fetching"
  /\ CanRun(p)
  /\ LET a == proc[p].acctList[proc[p].ai] IN
       /\ ~known_marketplace(accounts[a].marketplace)
       /\ proc' = [proc EXCEPT ![p] =
            ToAccount(proc[p], AccountLoopNext(proc[p].ai, Len(proc[p].acctList)))]
  /\ UNCHANGED <<AUTO_SEND_RESPONSES, LLM_PROVIDER, upstream, accounts, rules, reviews, dirty, answered,
                 calls, runs, last, fetchFailed, fetched>>

\* _fetch_new_reviews returns: the list is parsed, filtered against the
\* recorded ids, last_sync is committed; process_account then returns on an
\* empty list or a missing rule, or enters the review loop.
Fetch(p, repeats, bad) ==
  /\ proc[p].pc = "fetching"
  /\ CanRun(p)
  /\ known_marketplace(accounts[proc[p].acctList[proc[p].ai]].marketplace)
  /\ \E response \in Responses(proc[p].acctList[proc[p].ai], repeats, bad) :
     LET a        == proc[p].acctList[proc[p].ai]
         raws     == FetchCall(a, response).list
         parsed   == [i \in DOMAIN raws |-> Parse(a, raws[i])]
         fresh    == new_reviews(parsed, existing_ids(reviews, a))
         ruleIdx  == FirstActiveRule(rules, accounts[a].user_id)
         ids      == {parsed[i].external_id : i \in DOMAIN parsed}
     IN
       /\ ~FetchCall(a, response).raises
       /\ fetched' = fetched + Len(raws)
       /\ accounts' = [accounts EXCEPT ![a] = touch_account(@, Now)]
       /\ reviews' = Flush(reviews, dirty[p])
       /\ dirty' = [dirty EXCEPT ![p] = <<>>]
       /\ runs' = [runs EXCEPT ![a] = [ids |-> ids, ruled |-> ruleIdx # 0]]
       /\ last' = [account |-> a, hasPrev |-> accounts[a].last_sync # <<>>,
                   prevIds |-> runs[a].ids, prevRuled |-> runs[a].ruled,
                   status |-> response.status, fields |-> PayloadFields(response),
                   slept |-> FetchCall(a, response).slept]
       /\ proc' = [proc EXCEPT ![p] =
            LET pr == [proc[p] EXCEPT !.client = client_after_call(@ + 1, TRUE)] IN
            IF fresh = <<>> \/ ruleIdx = 0
            THEN ToAccount(pr, AccountLoopNext(pr.ai, Len(pr.acctList)))
            ELSE [pr EXCEPT !.pc = "review", !.queue = fresh, !.rule = ruleIdx]]
  /\ UNCHANGED <<AUTO_SEND_RESPONSES, LLM_PROVIDER, upstream, rules, answered, calls, fetchFailed>>

\* _process_single_review for the next new review, up to its end or to the
\* await of the submit.  `reply` is what the model provider does if called.
ProcessReview(p, reply) ==
  /\ proc[p].pc = "review"
  /\ LET pr     == proc[p]
         a      == pr.acctList[pr.ai]
         rd     == Head(pr.queue)
         id     == Len(reviews) + 1
         row    == NewReview(a, rd, Now)
         stored == Append(Flush(reviews, dirty[p]), row)    \* lines 144-145
         rule   == rules[pr.rule]
         gen    == generate_response(LLM_PROVIDER, reply)
         done   == [row EXCEPT !.response_text = gen.response_text,
                               !.tokens_used = gen.tokens_used,
                               !.cost_rub = gen.cost_rub,
                               !.processed = TRUE]
         called == [NoCalls EXCEPT !.matched = TRUE, !.gen = 1, !.gen_ok = gen.ok,
                                   !.gen_at = Now,
                                   !.usage = IF gen.ok
                                             THEN <<reply.prompt_tokens,
                                                    reply.completion_tokens>>
                                             ELSE <<>>,
                                   !.cost = gen.cost_rub]
     IN
       IF row.external_id = <<>>
       THEN \* external_id is NOT NULL (models.py:92): the commit of line 145
            \* raises, the session rolls back and drops its pending changes
            /\ reviews' = reviews
            /\ dirty' = [dirty EXCEPT ![p] = <<>>]
            /\ calls' = calls
            /\ proc' = [proc EXCEPT ![p] = ToReview(pr, ReviewLoopOnError(pr.queue))]
       ELSE IF ~should_process_review(row, rule)
       THEN /\ reviews' = stored
            /\ dirty' = [dirty EXCEPT ![p] = <<>>]
            /\ calls' = Append(calls, NoCalls)
            /\ proc' = [proc EXCEPT ![p] = ToReview(pr, ReviewLoopNext(pr.queue))]
       ELSE IF ~gen.ok
       THEN /\ reviews' = stored
            /\ dirty' = [dirty EXCEPT ![p] = <<>>]
            /\ calls' = Append(calls, called)
            /\ proc' = [proc EXCEPT ![p] = ToReview(pr, ReviewLoopOnError(pr.queue))]
       ELSE IF NeedsModeration(rule, row.rating)
       THEN /\ reviews' = Append(Flush(reviews, dirty[p]),
                                 [done EXCEPT !.moderation_status = "pending"])
            /\ dirty' = [dirty EXCEPT ![p] = <<>>]
            /\ calls' = Append(calls, called)
            /\ proc' = [proc EXCEPT ![p] = ToReview(pr, ReviewLoopNext(pr.queue))]
       ELSE IF ~AutoSend(AUTO_SEND_RESPONSES)
       THEN /\ reviews' = Append(Flush(reviews, dirty[p]),
                                 [done EXCEPT !.moderation_status = "auto"])
            /\ dirty' = [dirty EXCEPT ![p] = <<>>]
            /\ calls' = Append(calls, called)
            /\ proc' = [proc EXCEPT ![p] = ToReview(pr, ReviewLoopNext(pr.queue))]
       ELSE /\ reviews' = stored
            /\ dirty' = [dirty EXCEPT ![p] = (id :> [done EXCEPT !.moderation_status = "auto"])]
            /\ calls' = Append(calls, called)
            /\ proc' = [proc EXCEPT ![p] =          \* the client of line 231 / 239
                          [pr EXCEPT !.pc = "sending", !.cur = id,
                                     !.client = IF known_marketplace(accounts[a].marketplace)
                                                THEN @ + 1 ELSE @]]
  /\ UNCHANGED <<AUTO_SEND_RESPONSES, LLM_PROVIDER, upstream, accounts, rules, answered, runs, last, fetchFailed, fetched>>

\* _send_response from the await of the submit on, and the rest of
\* _process_single_review.  `accepted` is the marketplace's answer to the POST.
SendResponse(p, accepted) ==
  /\ proc[p].pc = "sending"
  /\ CanRun(p)
  /\ LET a   == proc[p].acctList[proc[p].ai]
         id  == proc[p].cur
         row == View(p, id)
         res == SubmitCall(accounts[a].marketplace, row.external_id,
                           row.response_text[1], accepted)
         sent == [row EXCEPT !.response_sent = TRUE, !.sent_at = Now]
         pr  == [proc[p] EXCEPT !.client = IF known_marketplace(accounts[a].marketplace)
                                           THEN client_after_call(@, res.ok) ELSE @]
     IN
       /\ calls' = [calls EXCEPT ![id].send = @ + 1, ![id].send_at = Now,
                                 ![id].len = row.response_text,
                                 ![id].slept = res.slept,
                                 ![id].posts = @ + (IF res.issued THEN 1 ELSE 0)]
       /\ answered' = IF res.issued /\ accepted      \* the marketplace's side
                      THEN [answered EXCEPT ![a] = @ \cup {row.external_id[1]}]
                      ELSE answered
       /\ IF res.ok
          THEN /\ reviews' = Flush(reviews, [dirty[p] EXCEPT ![id] = sent])   \* 245-247, 181
               /\ dirty' = [dirty EXCEPT ![p] = <<>>]
               /\ proc' = [proc EXCEPT ![p] = ToReview(pr, ReviewLoopNext(pr.queue))]
          ELSE /\ UNCHANGED <<reviews, dirty>>      \* line 181 is not reached
               /\ proc' = [proc EXCEPT ![p] = ToReview(pr, ReviewLoopOnError(pr.queue))]
  /\ UNCHANGED <<AUTO_SEND_RESPONSES, LLM_PROVIDER, upstream, accounts, rules, runs, last, fetchFailed, fetched>>

\* The administrative surface, which edits rules: a rule of the user becomes
\* active, between batches.
AdminActivateRule ==
  /\ \A p \in Procs : proc[p].pc = "idle"
  /\ \E i \in DOMAIN rules :
       /\ ~rules[i].is_active
       /\ rules' = [rules EXCEPT ![i].is_active = TRUE]
  /\ UNCHANGED <<AUTO_SEND_RESPONSES, LLM_PROVIDER, upstream, accounts, reviews, dirty, answered, proc,
                 calls, runs, last, fetchFailed, fetched>>

\* get_stats, endpoints.py:221-224 (it reads the committed table).
get_stats(rows) ==
  [ total_reviews      |-> Len(rows),
    processed_reviews  |-> Cardinality({i \in DOMAIN rows : rows[i].processed}),
    pending_moderation |-> Cardinality({i \in DOMAIN rows :
                                          rows[i].moderation_status = "pending"}),
    auto_sent          |-> Cardinality({i \in DOMAIN rows :
                                          rows[i].moderation_status = "auto"}) ]

\* One processor, one batch after the other.
Next ==
  \/ StartBatch(1)
  \/ FetchFails(1)
  \/ FetchUnknown(1)
  \/ Fetch(1, TRUE, FALSE)
  \/ \E reply \in ProviderReplies : ProcessReview(1, reply)
  \/ \E accepted \in BOOLEAN : SendResponse(1, accepted)
  \/ AdminActivateRule

Spec == Init /\ [][Next]_vars

\* Two processors on the same tables, each with its own session, interleaved
\* at the awaits.  A fetch returns each unanswered review at most once.
NextConc ==
  \E p \in Procs :
    \/ StartBatch(p)
    \/ FetchFails(p)
    \/ FetchUnknown(p)
    \/ Fetch(p, FALSE, FALSE)
    \/ \E reply \in ProviderReplies : ProcessReview(p, reply)
    \/ \E accepted \in BOOLEAN : SendResponse(p, accepted)

SpecConc == Init /\ [][NextConc]_vars

\* ------------------------------------------------ one review, any inputs
\* One marketplace holding one review, with the record, the rule, the
\* provider and the provider's reply drawn from wider sets.
OneRanges == {<<1, 5>>, <<4, 5>>, <<2, 3>>}
OneKeywords == {<<>>, << <<"A">> >>, << <<"z">>, <<"B">> >>}
OneRules ==
  { [user_id |-> 1, is_active |-> TRUE, min_rating |-> r[1], max_rating |-> r[2],
     keywords_include |-> ki, keywords_exclude |-> ke, require_moderation |-> m] :
      r \in OneRanges, ki \in OneKeywords, ke \in OneKeywords \ {<< <<"A">> >>},
      m \in BOOLEAN }
OneTexts == {<<>>, << <<"A", "b">> >>, << <<"b">> >>}
OneRatings == {<<>>} \cup {<<r>> : r \in 1..5}
OneRaw(a) ==
  IF a = 1
  THEN { [id |-> i, rating |-> r, text |-> t, rank |-> 1] :
           i \in {<<>>, <<"101">>}, r \in OneRatings, t \in OneTexts }
  ELSE { [id |-> i, rating |-> <<5>>, text |-> <<>>, rank |-> 1] : i \in {<<>>, <<101>>} }
OneProviders == DOMAIN PROVIDER_COSTS \cup {"mistral"}
OneReplies ==
  ProviderReplies \cup
  { [raises |-> FALSE, content |-> <<2>>, prompt_tokens |-> pt, completion_tokens |-> ct,
     total_tokens |-> pt + ct] : pt \in {1, 100000}, ct \in {0, 7} }

InitOne ==
  /\ AUTO_SEND_RESPONSES \in BOOLEAN
  /\ \/ /\ LLM_PROVIDER = "gigachat"
        /\ \E r \in OneRules : rules = <<r>>
        /\ \E a \in {1, 3} : \E raw \in OneRaw(a) :
             upstream = [b \in AccountIds |-> IF b = a THEN {raw} ELSE {}]
     \/ /\ LLM_PROVIDER \in OneProviders
        /\ \E r \in RuleSet : rules = <<WithActive(r, TRUE)>>
        /\ upstream = [b \in AccountIds |-> IF b = 3 THEN OzonRaw ELSE {}]
  /\ accounts = [a \in AccountIds |->
       [marketplace |-> IF a = 1 THEN "wildberries"
                        ELSE IF a = 2 THEN "yandex" ELSE "ozon",
        api_key_encrypted |-> "key", user_id |-> 1, is_active |-> TRUE,
        last_sync |-> <<>>]]
  /\ reviews = <<>>
  /\ dirty = [p \in Procs |-> <<>>]
  /\ answered = [a \in AccountIds |-> {}]
  /\ proc = [p \in Procs |-> IdleProc]
  /\ calls = <<>>
  /\ runs = [a \in AccountIds |-> NoRun]
  /\ last = NoLast
  /\ fetchFailed = {}
  /\ fetched = 0

NextOne ==
  \/ StartBatch(1)
  \/ FetchFails(1)
  \/ FetchUnknown(1)
  \/ Fetch(1, FALSE, FALSE)
  \/ \E reply \in OneReplies : ProcessReview(1, reply)
  \/ \E accepted \in BOOLEAN : SendResponse(1, accepted)

SpecOne == InitOne /\ [][NextOne]_vars

\* ------------------------------------------------ the matcher's keywords
\* One Wildberries review of rating 5 under a rule that takes every rating,
\* with the review text and the two keyword lists drawn from sets that hold
\* the empty keyword and the empty text.
MatchKeywords == {<<>>, << <<>> >>, << <<"A">> >>, << <<"z">>, <<>> >>}
MatchRules ==
  { [user_id |-> 1, is_active |-> TRUE, min_rating |-> 1, max_rating |-> 5,
     keywords_include |-> ki, keywords_exclude |-> ke, require_moderation |-> FALSE] :
      ki \in MatchKeywords, ke \in MatchKeywords }
MatchRaw ==
  { [id |-> <<"101">>, rating |-> <<5>>, text |-> t, rank |-> 1] :
      t \in {<<>>, << <<>> >>, << <<"A", "b">> >>} }

InitMatch ==
  /\ AUTO_SEND_RESPONSES \in BOOLEAN
  /\ LLM_PROVIDER = "gigachat"
  /\ \E r \in MatchRules : rules = <<r>>
  /\ \E raw \in MatchRaw :
       upstream = [b \in AccountIds |-> IF b = 1 THEN {raw} ELSE {}]
  /\ accounts = [a \in AccountIds |->
       [marketplace |-> IF a = 1 THEN "wildberries"
                        ELSE IF a = 2 THEN "yandex" ELSE "ozon",
        api_key_encrypted |-> "key", user_id |-> 1, is_active |-> TRUE,
        last_sync |-> <<>>]]
  /\ reviews = <<>>
  /\ dirty = [p \in Procs |-> <<>>]
  /\ answered = [a \in AccountIds |-> {}]
  /\ proc = [p \in Procs |-> IdleProc]
  /\ calls = <<>>
  /\ runs = [a \in AccountIds |-> NoRun]
  /\ last = NoLast
  /\ fetchFailed = {}
  /\ fetched = 0

SpecMatch == InitMatch /\ [][NextOne]_vars

\* ------------------------------------------------ more than one page
\* Each marketplace holds a review at the head of its listing and one just
\* past the first page of the client's listing request; the reviews between
\* the two are not followed here.
PageRaw(a) ==
  IF a = 1
  THEN { [id |-> <<"101">>, rating |-> <<5>>, text |-> << <<"A", "b">> >>, rank |-> 1],
         [id |-> <<"102">>, rating |-> <<5>>, text |-> << <<"A", "b">> >>,
          rank |-> WBTake + 1] }
  ELSE IF a = 3
  THEN { [id |-> <<101>>, rating |-> <<5>>, text |-> <<>>, rank |-> 1],
         [id |-> <<102>>, rating |-> <<5>>, text |-> <<>>, rank |-> OzonLimit + 1] }
  ELSE {}

InitPage ==
  /\ AUTO_SEND_RESPONSES \in BOOLEAN
  /\ LLM_PROVIDER = "gigachat"
  /\ \E r \in RuleSet : rules = <<WithActive(r, TRUE)>>
  /\ upstream = [a \in AccountIds |-> PageRaw(a)]
  /\ accounts = [a \in AccountIds |->
       [marketplace |-> IF a = 1 THEN "wildberries"
                        ELSE IF a = 2 THEN "yandex" ELSE "ozon",
        api_key_encrypted |-> "key", user_id |-> 1, is_active |-> TRUE,
        last_sync |-> <<>>]]
  /\ reviews = <<>>
  /\ dirty = [p \in Procs |-> <<>>]
  /\ answered = [a \in AccountIds |-> {}]
  /\ proc = [p \in Procs |-> IdleProc]
  /\ calls = <<>>
  /\ runs = [a \in AccountIds |-> NoRun]
  /\ last = NoLast
  /\ fetchFailed = {}
  /\ fetched = 0

\* One processor; a fetch may be answered with a response that carries no
\* review list.
NextPage ==
  \/ StartBatch(1)
  \/ FetchFails(1)
  \/ FetchUnknown(1)
  \/ Fetch(1, FALSE, TRUE)
  \/ \E reply \in ProviderReplies : ProcessReview(1, reply)
  \/ \E accepted \in BOOLEAN : SendResponse(1, accepted)

SpecPage == InitPage /\ [][NextPage]_vars

\* ------------------------------------------------ accounts switched off
\* The three accounts with one or more of them inactive.
InitAccts ==
  /\ AUTO_SEND_RESPONSES \in BOOLEAN
  /\ LLM_PROVIDER = "gigachat"
  /\ \E r \in RuleSet : ~r.require_moderation /\ rules = <<WithActive(r, TRUE)>>
  /\ upstream = [a \in AccountIds |->
       IF a = 1 THEN WBRaw ELSE IF a = 3 THEN OzonRaw ELSE {}]
  /\ \E act \in [AccountIds -> BOOLEAN] :
       /\ \E a \in AccountIds : ~act[a]
       /\ accounts = [a \in AccountIds |->
         [marketplace |-> IF a = 1 THEN "wildberries"
                          ELSE IF a = 2 THEN "yandex" ELSE "ozon",
          api_key_encrypted |-> "key", user_id |-> 1, is_active |-> act[a],
          last_sync |-> <<>>]]
  /\ reviews = <<>>
  /\ dirty = [p \in Procs |-> <<>>]
  /\ answered = [a \in AccountIds |-> {}]
  /\ proc = [p \in Procs |-> IdleProc]
  /\ calls = <<>>
  /\ runs = [a \in AccountIds |-> NoRun]
  /\ last = NoLast
  /\ fetchFailed = {}
  /\ fetched = 0

\* One processor, one batch after the other, each fetch answered with a
\* list without repeats.
NextAccts ==
  \/ StartBatch(1)
  \/ FetchFails(1)
  \/ FetchUnknown(1)
  \/ Fetch(1, FALSE, FALSE)
  \/ \E reply \in ProviderReplies : ProcessReview(1, reply)
  \/ \E accepted \in BOOLEAN : SendResponse(1, accepted)

SpecAccts == InitAccts /\ [][NextAccts]_vars

\* ------------------------------------------------ rules of several users
\* The rule table holds, in any order, an active rule of user 1, an active
\* rule of user 2 and a rule of user 1 that is switched off.
RuleRows ==
  { [user_id |-> 1, is_active |-> TRUE, min_rating |-> 4, max_rating |-> 5,
     keywords_include |-> << <<"A">> >>, keywords_exclude |-> <<>>,
     require_moderation |-> TRUE],
    [user_id |-> 2, is_active |-> TRUE, min_rating |-> 1, max_rating |-> 5,
     keywords_include |-> <<>>, keywords_exclude |-> << <<"Z">> >>,
     require_moderation |-> FALSE],
    [user_id |-> 1, is_active |-> FALSE, min_rating |-> 1, max_rating |-> 5,
     keywords_include |-> <<>>, keywords_exclude |-> <<>>,
     require_moderation |-> FALSE] }

\* The Wildberries account belongs to user 1, the Ozon account to user 2.
InitRules ==
  /\ AUTO_SEND_RESPONSES \in BOOLEAN
  /\ LLM_PROVIDER = "gigachat"
  /\ rules \in {t \in [1..3 -> RuleRows] : \A i, j \in 1..3 : t[i] = t[j] => i = j}
  /\ upstream = [a \in AccountIds |->
       IF a = 1 THEN WBRaw ELSE IF a = 3 THEN OzonRaw ELSE {}]
  /\ accounts = [a \in AccountIds |->
         [marketplace |-> IF a = 1 THEN "wildberries"
                          ELSE IF a = 2 THEN "yandex" ELSE "ozon",
          api_key_encrypted |-> "key", user_id |-> IF a = 3 THEN 2 ELSE 1,
          is_active |-> TRUE, last_sync |-> <<>>]]
  /\ reviews = <<>>
  /\ dirty = [p \in Procs |-> <<>>]
  /\ answered = [a \in AccountIds |-> {}]
  /\ proc = [p \in Procs |-> IdleProc]
  /\ calls = <<>>
  /\ runs = [a \in AccountIds |-> NoRun]
  /\ last = NoLast
  /\ fetchFailed = {}
  /\ fetched = 0

SpecRules == InitRules /\ [][NextAccts]_vars

\* ================================================================ claims
RowIds == DOMAIN reviews
RowsOf(a) == {i \in RowIds : reviews[i].marketplace_account_id = a}
KeyRows(a, e) == {i \in RowsOf(a) : reviews[i].external_id = e}
\* Rows the running (latest) batch created / rows that were there before it.
CreatedNow(a) == {i \in RowsOf(a) : reviews[i].created_at = Now}
CreatedBefore(a) == {i \in RowsOf(a) : reviews[i].created_at # Now}
BatchOver == proc[1].pc = "idle"

\* C1 as stated: when a run for an account is followed by a run whose fetch
\* returns no external_id the first one did not return, the second run
\* creates no Review record.
C1_RerunCreatesNothing ==
  \A a \in AccountIds :
    (last.account = a /\ last.hasPrev /\ runs[a].ids \subseteq last.prevIds)
      => CreatedNow(a) = {}

\* C1 amended: the same, for a first run that found an active rule of the
\* account's owner (a run without one records nothing of what it fetched).
C1_RerunAfterRuledRunCreatesNothing ==
  \A a \in AccountIds :
    (last.account = a /\ last.hasPrev /\ last.prevRuled
       /\ runs[a].ids \subseteq last.prevIds)
      => CreatedNow(a) = {}

\* A second run has returned again a review whose submit had failed in the
\* first, and has finished.
C1_Witness ==
  /\ BatchOver
  /\ last.account = 1 /\ last.hasPrev /\ last.prevRuled
  /\ runs[1].ids # {} /\ runs[1].ids \subseteq last.prevIds
  /\ \E i \in CreatedBefore(1) :
       reviews[i].external_id \in runs[1].ids /\ calls[i].send > 0
         /\ ~reviews[i].response_sent

\* C2: at most one Review row per (account_id, external_id).
C2_UniqueKey ==
  \A i, j \in RowIds :
    (/\ reviews[i].marketplace_account_id = reviews[j].marketplace_account_id
     /\ reviews[i].external_id = reviews[j].external_id) => i = j

\* C3: with two batches running concurrently on the same account, no
\* (account_id, external_id) has two Review rows, and no review has a reply
\* generated twice or submitted twice.
C3_NoDuplicateWorkUnderConcurrency ==
  \A a \in AccountIds :
    \A e \in {reviews[i].external_id : i \in RowsOf(a)} :
      /\ Cardinality(KeyRows(a, e)) <= 1
      /\ Cardinality({i \in KeyRows(a, e) : calls[i].gen > 0}) <= 1
      /\ Cardinality({i \in KeyRows(a, e) : calls[i].send > 0}) <= 1

\* C4: every Review with response_sent has a non-empty response_text and a
\* moderation_status of auto or approved.
C4_SentInvariant ==
  \A i \in RowIds :
    reviews[i].response_sent =>
      /\ reviews[i].response_text # <<>>
      /\ reviews[i].response_text[1] > 0
      /\ reviews[i].moderation_status \in {"auto", "approved"}

\* Rows of reviews for which the rule matcher returned false.
Skipped == {i \in RowIds : ~calls[i].matched}

\* C5: a review the rule matcher rejected has a row with processed = false
\* and no response_text, and get_stats does not count that row as pending
\* moderation.
C5_SkippedState ==
  /\ \A i \in Skipped : ~reviews[i].processed /\ reviews[i].response_text = <<>>
  /\ get_stats(reviews).pending_moderation =
       Cardinality({i \in RowIds \ Skipped : reviews[i].moderation_status = "pending"})

\* The latest batch fetched account a / got review row i back from the
\* marketplace as unanswered.
FetchedNow(a) == accounts[a].last_sync = Now
ReportedNow(i) ==
  /\ FetchedNow(reviews[i].marketplace_account_id)
  /\ reviews[i].external_id \in runs[reviews[i].marketplace_account_id].ids
SendFailed(i) == calls[i].send > 0 /\ ~reviews[i].response_sent
GenFailed(i) == calls[i].matched /\ ~calls[i].gen_ok

\* C6: a review whose submit failed in an earlier batch, and which the
\* marketplace returned again as unanswered in the batch that has just
\* finished, had its submit attempted again in that batch.
C6_SendFailureRetried ==
  \A i \in RowIds :
    (/\ BatchOver
     /\ SendFailed(i)
     /\ reviews[i].created_at # Now
     /\ ReportedNow(i)) => calls[i].send_at = Now

\* C7: a matching review whose generation failed in an earlier batch, and
\* which the marketplace returned again as unanswered in the batch that has
\* just finished, had its generation attempted again in that batch.
C7_GenerationFailureRetried ==
  \A i \in RowIds :
    (/\ BatchOver
     /\ GenFailed(i)
     /\ reviews[i].created_at # Now
     /\ ReportedNow(i)) => calls[i].gen_at = Now

KnownKind(a) == accounts[a].marketplace \in {"wildberries", "ozon"}
RuleOf(a) == rules[FirstActiveRule(rules, accounts[a].user_id)]

\* Every review the latest fetch of account a returned has a row.
RunRecorded(a) == \A e \in runs[a].ids : KeyRows(a, e) # {}

\* Row i, created by the latest batch, went through the steps its rule asks
\* for: the matcher's verdict, a generation call if it matched, a submit call
\* if a reply came back, no moderation is due and auto-send is on.
RowHandled(a, i) ==
  /\ calls[i].matched = should_process_review(reviews[i], RuleOf(a))
  /\ calls[i].matched => (calls[i].gen = 1 /\ calls[i].gen_at = Now)
  /\ (/\ calls[i].gen_ok
      /\ ~NeedsModeration(RuleOf(a), reviews[i].rating)
      /\ AUTO_SEND_RESPONSES) => (calls[i].send = 1 /\ calls[i].send_at = Now)

\* process_account ran to its end for account a in the latest batch: the
\* fetch was made and, with an active rule of the owner, every review it
\* returned is recorded and every new one was handled.
FullyProcessed(a) ==
  /\ FetchedNow(a)
  /\ runs[a].ruled => (RunRecorded(a) /\ \A i \in CreatedNow(a) : RowHandled(a, i))

\* C8: when the fetch of some account failed in the batch that has just
\* finished, every other active account of a known marketplace was fully
\* processed in that batch, wherever the failing account stood in the list.
C8_AccountFailureIsolated ==
  (BatchOver /\ fetchFailed # {}) =>
    \A a \in AccountIds \ fetchFailed :
      (accounts[a].is_active /\ KnownKind(a)) => FullyProcessed(a)

\* The first account's fetch failed and a later account had a new review
\* recorded and a reply generated for it in the same batch.
C8_Witness ==
  /\ BatchOver
  /\ 1 \in fetchFailed
  /\ \E i \in CreatedNow(3) : calls[i].gen_ok /\ reviews[i].processed

\* Rows of account a, created by the latest batch, whose generation or
\* submit failed.
FailedNow(a) == {i \in CreatedNow(a) : GenFailed(i) \/ SendFailed(i)}

\* C9: when the generation or the submit of some review of an account failed
\* in the batch that has just finished, every review the account's fetch
\* returned is recorded and every new one went through matching, generation
\* and (when authorized) submit.
C9_ReviewFailureIsolated ==
  \A a \in AccountIds :
    (BatchOver /\ FetchedNow(a) /\ FailedNow(a) # {}) =>
      (RunRecorded(a) /\ \A i \in CreatedNow(a) : RowHandled(a, i))

\* A submit failed for one new review and a later new review of the same
\* account was recorded and had its reply generated, in the same batch.
C9_Witness ==
  /\ BatchOver
  /\ \E i, j \in CreatedNow(1) :
       i < j /\ SendFailed(i) /\ calls[j].gen_ok /\ reviews[j].processed

InBounds(len) == MinReplyLen <= len /\ len <= MaxReplyLen

\* C10: for either client, a submit call issues its request exactly when the
\* length of the text is within the bounds.
C10_ValidationBoundary ==
  \A i \in RowIds :
    calls[i].send > 0 => (calls[i].posts > 0 <=> InBounds(calls[i].len[1]))

\* Rows for which a reply was generated and whose session still holds (or
\* has committed) what _process_single_review assigned.
Generated == {i \in RowIds : calls[i].gen_ok /\ View(1, i).processed}

\* C11: the moderation status assigned to a generated reply is pending
\* exactly when the rule requires moderation or the rating is at most 3, and
\* auto otherwise.
C11_ModerationGate ==
  \A i \in Generated :
    LET rule == RuleOf(reviews[i].marketplace_account_id) IN
      /\ View(1, i).moderation_status \in {"pending", "auto"}
      /\ View(1, i).moderation_status = "pending"
           <=> (rule.require_moderation \/ reviews[i].rating <= 3)

\* A reply was generated for a review of rating 3 under a rule that does not
\* require moderation, and it is pending.
C11_Witness ==
  \E i \in Generated :
    /\ reviews[i].rating = 3
    /\ ~RuleOf(reviews[i].marketplace_account_id).require_moderation
    /\ View(1, i).moderation_status = "pending"

\* kw occurs in text as a substring, letter case ignored.
OccursIn(kw, text) ==
  \E off \in 0..(Len(text) - Len(kw)) :
    \A j \in 1..Len(kw) : Lower(text[off + j]) = Lower(kw[j])

\* The matcher's reference: rating within the range, some include keyword
\* occurs (if there are any), no exclude keyword occurs.
RefMatches(review, rule) ==
  LET text == IF review.text = <<>> THEN <<>> ELSE review.text[1] IN
    /\ rule.min_rating <= review.rating
    /\ review.rating <= rule.max_rating
    /\ (Len(rule.keywords_include) = 0
          \/ \E k \in 1..Len(rule.keywords_include) : OccursIn(rule.keywords_include[k], text))
    /\ (Len(rule.keywords_exclude) = 0
          \/ \A k \in 1..Len(rule.keywords_exclude) : ~OccursIn(rule.keywords_exclude[k], text))

\* C12: the rule matcher returns true for a review exactly when the
\* reference holds; a rating outside the range never matches.
C12_RuleMatcherReference ==
  \A i \in RowIds :
    LET rule == RuleOf(reviews[i].marketplace_account_id) IN
      /\ calls[i].matched <=> RefMatches(reviews[i], rule)
      /\ (reviews[i].rating < rule.min_rating \/ reviews[i].rating > rule.max_rating)
           => ~calls[i].matched

\* A review matched through an include keyword that differs from the text
\* in letter case, under a rule that also has exclude keywords.
C12_Witness ==
  \E i \in RowIds :
    LET rule == RuleOf(reviews[i].marketplace_account_id) IN
      /\ calls[i].matched
      /\ rule.keywords_include = << <<"A">> >>
      /\ reviews[i].text = << <<"A", "b">> >>
      /\ rule.min_rating = 4 /\ reviews[i].rating = 4

\* C13: no Review row has a rating outside 1..5 or lacks an external_id
\* (a record without an id or a valid rating is skipped, not stored).
C13_NoInvalidRecordStored ==
  \A i \in RowIds :
    /\ reviews[i].rating \in 1..5
    /\ reviews[i].external_id # <<>>
    /\ reviews[i].external_id[1] # "None"

\* The rule of row i's account, and what the gate decides for the row.
RowRule(i) == RuleOf(reviews[i].marketplace_account_id)
DecisionPending(i) == RowRule(i).require_moderation \/ reviews[i].rating <= 3

\* C14: while auto-send is off no submit call is made for any review, and a
\* review with a generated reply and the decision auto is stored with
\* processed = true, moderation_status = auto, a response_text and
\* response_sent = false.
C14_AutoSendOff ==
  ~AUTO_SEND_RESPONSES =>
    \A i \in RowIds :
      /\ calls[i].send = 0
      /\ (calls[i].gen_ok /\ ~DecisionPending(i)) =>
           /\ reviews[i].processed
           /\ reviews[i].moderation_status = "auto"
           /\ reviews[i].response_text # <<>>
           /\ ~reviews[i].response_sent

\* With auto-send off, a reply with the decision auto was generated in an
\* earlier batch, the review was fetched again and the batch is over.
C14_Witness ==
  /\ ~AUTO_SEND_RESPONSES
  /\ BatchOver
  /\ \E i \in RowIds :
       /\ calls[i].gen_ok /\ ~DecisionPending(i)
       /\ reviews[i].created_at # Now
       /\ ReportedNow(i)

\* C15: for a review whose reply was generated with the decision pending,
\* no submit call is ever made and response_sent stays false.
C15_PendingNeverSent ==
  \A i \in RowIds :
    (calls[i].gen_ok /\ DecisionPending(i)) =>
      /\ calls[i].send = 0
      /\ ~reviews[i].response_sent
      /\ ~View(1, i).response_sent

\* With auto-send on, a review was generated as pending by the rule's flag
\* in an earlier batch, was fetched again and the batch is over.
C15_Witness ==
  /\ AUTO_SEND_RESPONSES
  /\ BatchOver
  /\ \E i \in RowIds :
       /\ calls[i].gen_ok /\ RowRule(i).require_moderation
       /\ reviews[i].rating > 3
       /\ reviews[i].moderation_status = "pending"
       /\ reviews[i].created_at # Now
       /\ ReportedNow(i)

\* No rule of the account's owner is active.
NoActiveRule(a) ==
  \A k \in DOMAIN rules : ~(rules[k].user_id = accounts[a].user_id /\ rules[k].is_active)

\* Every active account of a known marketplace after a in the batch's order
\* was fetched in the latest batch, unless its own fetch failed.
LaterAccountsFetched(a) ==
  \A b \in AccountIds :
    (b > a /\ accounts[b].is_active /\ KnownKind(b) /\ b \notin fetchFailed)
      => FetchedNow(b)

\* C16: an account fetched while its owner has no active rule gets no Review
\* row and no generation or submit call in that batch, and the batch goes on
\* with the accounts after it; reviews fetched in a run without a rule and
\* fetched again in the next run, made with a rule, are recorded by that run.
C16_MissingActiveRule ==
  \A a \in AccountIds :
    /\ (FetchedNow(a) /\ NoActiveRule(a)) =>
         /\ CreatedNow(a) = {}
         /\ \A i \in RowsOf(a) : calls[i].gen_at # Now /\ calls[i].send_at # Now
         /\ BatchOver => LaterAccountsFetched(a)
    /\ (/\ BatchOver
        /\ last.account = a /\ last.hasPrev /\ ~last.prevRuled /\ runs[a].ruled) =>
         \A e \in runs[a].ids \cap last.prevIds :
           \E i \in CreatedNow(a) : reviews[i].external_id = e

\* A batch fetched a review for an account without an active rule; a rule
\* became active; the next batch fetched the review again and recorded it.
C16_Witness ==
  /\ BatchOver
  /\ last.account = 3 /\ last.hasPrev /\ ~last.prevRuled /\ runs[3].ruled
  /\ runs[3].ids \cap last.prevIds # {}
  /\ CreatedNow(3) # {}

\* Generation and submit calls the latest batch made for the review
\* (account a, external id e), over every row that stands for it.
GenCallsNow(a, e) == {i \in KeyRows(a, e) : calls[i].gen_at = Now}
SubmitCallsNow(a, e) == {i \in KeyRows(a, e) : calls[i].send_at = Now}

\* C17: within one batch every review gets at most one generation call and
\* at most one submit call, whatever fails; no row is called twice, and no two
\* rows of the same review are each called in the same batch.
C17_NoInBatchRetry ==
  /\ \A i \in RowIds : calls[i].gen <= 1 /\ calls[i].send <= 1
  /\ \A a \in AccountIds :
       \A e \in {reviews[i].external_id : i \in RowsOf(a)} :
         /\ Cardinality(GenCallsNow(a, e)) <= 1
         /\ Cardinality(SubmitCallsNow(a, e)) <= 1

\* The cost table in roubles per million tokens, as (input, output).
RatesPer1M ==
  [ openai |-> <<15, 60>>, anthropic |-> <<25, 125>>, gigachat |-> <<160, 96>>,
    yandexgpt |-> <<200, 120>>, perplexity |-> <<20, 20>>, ollama |-> <<0, 0>> ]

\* Rows whose reply was generated; calls[i].cost is the cost that
\* generate_response returned with it.
Costed == {i \in RowIds : calls[i].gen_ok /\ calls[i].usage # <<>>}

\* C18: the cost computed for a generated reply, times 10^6, is
\* input_tokens * input_rate + output_tokens * output_rate for the provider's
\* rates per million tokens (in units of 10^-7 rouble: ten times that sum, and
\* for google's rates of 7.5 and 30 roubles, 75 and 300 times the tokens);
\* 1000 and 500 tokens at rates (160, 96) cost 0.208 rouble.
C18_CostComputation ==
  \A i \in Costed :
    LET input_tokens  == calls[i].usage[1]
        output_tokens == calls[i].usage[2]
        cost          == calls[i].cost
    IN /\ cost # <<>>
       /\ View(1, i).cost_rub \in {<<>>, cost}
       /\ LLM_PROVIDER \in DOMAIN RatesPer1M =>
            cost[1] = 10 * (input_tokens * RatesPer1M[LLM_PROVIDER][1]
                            + output_tokens * RatesPer1M[LLM_PROVIDER][2])
       /\ LLM_PROVIDER = "google" =>
            cost[1] = input_tokens * 75 + output_tokens * 300
       /\ (/\ LLM_PROVIDER = "gigachat"
           /\ input_tokens = 1000 /\ output_tokens = 500) => cost[1] = 2080000

\* A reply generated by gigachat from 1000 input and 500 output tokens.
C18_Witness ==
  /\ LLM_PROVIDER = "gigachat"
  /\ \E i \in Costed : /\ calls[i].usage = <<1000, 500>>
                       /\ calls[i].cost = <<2080000>>
                       /\ View(1, i).cost_rub = <<2080000>>

\* Rows whose generation call failed, in the batch that made the call.
GenFailedNow == {i \in RowIds : calls[i].gen > 0 /\ ~calls[i].gen_ok /\ calls[i].gen_at = Now}

\* C19: a provider reply with empty content makes generate_response fail:
\* no generation succeeds with an empty text, so no row holds the empty string
\* as response_text and none is handed to a submit call; and a review whose
\* generation failed is left with processed = false, no response_text, no
\* moderation decision of auto and no submit call.
C19_EmptyGenerationIsError ==
  \A i \in RowIds :
    /\ View(1, i).response_text # <<0>>
    /\ reviews[i].response_text # <<0>>
    /\ calls[i].len # <<0>>
    /\ i \in GenFailedNow =>
         /\ ~View(1, i).processed
         /\ View(1, i).response_text = <<>>
         /\ View(1, i).moderation_status # "auto"
         /\ calls[i].send = 0

\* The fields a well-formed payload of the account's marketplace has.
ExpectedFields(a) ==
  IF accounts[a].marketplace = "wildberries"
  THEN {"data", "feedbacks"} ELSE {"result", "reviews"}

\* C20: a fetch returns a list only from a 2xx response whose payload has
\* the expected container and list fields; for any other response it fails
\* and never returns the empty list in place of the error.
C20_FetchFailsOnBadPayload ==
  last.account # 0 =>
    /\ last.status \in 200..299
    /\ ExpectedFields(last.account) \subseteq last.fields

\* C21: every request a marketplace client sends (the fetch of the latest
\* run, every submit POST) comes after a rate-limit sleep of that client.
C21_RateLimitBeforeRequest ==
  /\ last.account # 0 => last.slept
  /\ \A i \in RowIds : calls[i].posts > 0 => calls[i].slept

\* C22: once a batch is over, every review for which a generation call
\* succeeded has its response_text, tokens_used and cost in the table, with
\* processed = true, whatever happened to its submit and wherever it stood
\* in the batch.
C22_CostRecorded ==
  BatchOver =>
    \A i \in RowIds :
      calls[i].gen_ok =>
        /\ reviews[i].processed
        /\ reviews[i].response_text # <<>>
        /\ reviews[i].tokens_used # <<>>
        /\ reviews[i].cost_rub = calls[i].cost

\* processed = true goes with a successful generation call and its results.
ProcessedOnlyByGeneration(row, i) ==
  row.processed =>
    /\ calls[i].gen_ok
    /\ row.response_text # <<>> /\ row.tokens_used # <<>> /\ row.cost_rub # <<>>

\* C23: a row has processed = true only after a successful generation call
\* for it, and then its response_text, tokens_used and cost are set; and
\* once the batch is over the row of every matched review whose generation
\* succeeded has processed = true.
C23_GeneratedState ==
  \A i \in RowIds :
    /\ ProcessedOnlyByGeneration(reviews[i], i)
    /\ ProcessedOnlyByGeneration(View(1, i), i)
    /\ (BatchOver /\ calls[i].matched /\ calls[i].gen_ok) => reviews[i].processed

\* The steps row i has gone through are in order: a generation call only
\* after the rule matched, the results and a decision of auto only after a
\* successful generation, a submit call only after a decision of auto.
StepsInOrder(row, i) ==
  /\ calls[i].gen > 0 => calls[i].matched
  /\ calls[i].gen_ok => calls[i].gen > 0
  /\ row.processed => calls[i].gen_ok
  /\ row.moderation_status = "auto" => (calls[i].gen_ok /\ row.processed)
  /\ calls[i].send > 0 => (calls[i].gen_ok /\ ~DecisionPending(i))
  /\ row.response_sent => calls[i].send > 0

\* C24: every review goes through record creation, rule match, generation,
\* moderation decision and submit in this order; while a submit is awaited
\* the review has a generated reply and the status auto; and within a batch
\* no other review is begun before the one in hand is finished.
C24_PerReviewOrdering ==
  /\ \A i \in RowIds : StepsInOrder(reviews[i], i) /\ StepsInOrder(View(1, i), i)
  /\ proc[1].pc = "sending" =>
       /\ proc[1].cur = Len(reviews)
       /\ calls[proc[1].cur].gen_ok /\ calls[proc[1].cur].send = 0
       /\ View(1, proc[1].cur).moderation_status = "auto"
       /\ View(1, proc[1].cur).response_text # <<>>
       /\ DOMAIN dirty[1] = {proc[1].cur}

\* One batch handled two reviews of account 1 one after the other: the
\* first was generated, decided auto and sent, then the second was recorded.
C24_Witness ==
  /\ BatchOver
  /\ \E i, j \in CreatedNow(1) :
       /\ i < j
       /\ calls[i].gen_ok /\ calls[i].send = 1 /\ reviews[i].response_sent
       /\ reviews[i].moderation_status = "auto"
       /\ calls[j].gen_ok /\ reviews[j].moderation_status = "pending"

\* C25: no submit call is ever made for a review of rating 3 or less, nor
\* for a review handled under a rule that requires moderation; such a review
\* is never marked as sent either.
C25_LowRatingsNeverAutoSent ==
  \A i \in RowIds :
    (reviews[i].rating <= 3 \/ RowRule(i).require_moderation) =>
      /\ calls[i].send = 0 /\ calls[i].posts = 0
      /\ ~View(1, i).response_sent /\ ~reviews[i].response_sent
      /\ proc[1].cur # i

\* With auto-send on, a batch generated a reply for a review of rating 3
\* under a rule that does not require moderation, and ended.
C25_Witness ==
  /\ AUTO_SEND_RESPONSES /\ BatchOver
  /\ \E i \in RowIds :
       /\ reviews[i].rating = 3 /\ ~RowRule(i).require_moderation
       /\ calls[i].gen_ok /\ reviews[i].processed
       /\ reviews[i].moderation_status = "pending"

\* The review of row i has no text or the empty text.
EmptyText(i) == TextOrEmpty(reviews[i].text) = <<>>

\* C26: a review with empty or absent text never matches a rule whose list
\* of include keywords is non-empty, whatever the list holds; and with no
\* include keywords and a rating in range it matches whatever the exclude
\* keywords are (empty text passes the exclude check).
C26_EmptyTextKeywords ==
  \A i \in RowIds :
    EmptyText(i) =>
      /\ RowRule(i).keywords_include # <<>> => ~calls[i].matched
      /\ (/\ RowRule(i).keywords_include = <<>>
          /\ RowRule(i).min_rating <= reviews[i].rating
          /\ reviews[i].rating <= RowRule(i).max_rating) => calls[i].matched

\* External ids of a set of raw records of account a.
IdsOf(a, raws) == {Parse(a, raw).external_id : raw \in raws}

\* C27: a fetch to which the marketplace answered with every review of the
\* page the client asked for has returned every unanswered review the
\* marketplace holds for the account (stated for the time up to the first
\* submit of the batch for that account, while the listing is as it was).
C27_FetchCompleteness ==
  \A a \in AccountIds :
    (/\ last.account = a
     /\ \A i \in RowsOf(a) : calls[i].send_at # Now
     /\ IdsOf(a, Listed(a)) \subseteq runs[a].ids)
      => IdsOf(a, Unanswered(a)) \subseteq runs[a].ids

\* The latest batch got as far as some account's fetch.
BatchRan == \E b \in AccountIds : FetchedNow(b) \/ b \in fetchFailed

\* C28: a batch goes through exactly the active accounts: every active
\* account of a known marketplace is fetched (or its fetch fails), and for an
\* inactive account no fetch is made, no Review row is created and last_sync
\* stays as it was.
C28_OnlyActiveAccounts ==
  /\ proc[1].pc # "idle" =>
       {proc[1].acctList[k] : k \in DOMAIN proc[1].acctList}
         = {a \in AccountIds : accounts[a].is_active}
  /\ \A a \in AccountIds :
       /\ ~accounts[a].is_active =>
            /\ accounts[a].last_sync = <<>>
            /\ RowsOf(a) = {}
            /\ runs[a] = NoRun /\ last.account # a /\ a \notin fetchFailed
       /\ (BatchOver /\ BatchRan /\ accounts[a].is_active /\ KnownKind(a)) =>
            (FetchedNow(a) \/ a \in fetchFailed)

\* A batch ended that fetched account 3 and recorded its review while
\* account 1, which holds reviews too, is inactive.
C28_Witness ==
  /\ BatchOver
  /\ ~accounts[1].is_active /\ Upstream(1) # {}
  /\ accounts[3].is_active /\ FetchedNow(3) /\ CreatedNow(3) # {}

\* An account row but for its last_sync.
AccountFrame(acct) ==
  [marketplace |-> acct.marketplace, api_key_encrypted |-> acct.api_key_encrypted,
   user_id |-> acct.user_id, is_active |-> acct.is_active]

\* C29: no step of the pipeline changes a field of an account other than
\* last_sync (marketplace, credential, owner and active flag stay), and none
\* changes a rule.
C29_AccountFrame ==
  [][ /\ \A a \in AccountIds : AccountFrame(accounts'[a]) = AccountFrame(accounts[a])
      /\ rules' = rules ]_vars

\* A batch has fetched account 1 and written its last_sync.
C29_Witness ==
  /\ BatchOver
  /\ accounts[1].last_sync = Now /\ CreatedNow(1) # {}

\* C30: the dedup filter of an account looks at the external ids recorded
\* for that account only: once a batch that found a rule is over, every
\* external id it fetched for the account is recorded under the account,
\* whether or not another account has it recorded; and the batch created no
\* row for an id the account had recorded already.
C30_DedupPerAccount ==
  \A a \in AccountIds :
    /\ (BatchOver /\ FetchedNow(a) /\ runs[a].ruled) => RunRecorded(a)
    /\ \A i \in CreatedNow(a), j \in CreatedBefore(a) :
         reviews[i].external_id # reviews[j].external_id

\* Account 1 has the external id "101" recorded from an earlier batch, and
\* the latest batch fetched the same id for account 3 and recorded it there.
C30_Witness ==
  /\ BatchOver
  /\ \E j \in CreatedBefore(1) : reviews[j].external_id = <<"101">>
  /\ \E i \in CreatedNow(3) : reviews[i].external_id = <<"101">>

\* C31: an account whose marketplace is neither wildberries nor ozon is
\* gone through without a request (no fetch made or failed, no submit), gets
\* no Review row and keeps its last_sync, and the batch goes on with the
\* accounts after it.
C31_UnknownMarketplace ==
  \A a \in AccountIds :
    ~KnownKind(a) =>
      /\ accounts[a].last_sync = <<>>
      /\ RowsOf(a) = {}
      /\ runs[a] = NoRun /\ last.account # a /\ a \notin fetchFailed
      /\ proc[1].pc \in {"review", "sending"} => proc[1].acctList[proc[1].ai] # a
      /\ (BatchOver /\ BatchRan /\ accounts[a].is_active) => LaterAccountsFetched(a)

\* A batch went through the active account 2 of an unknown marketplace and
\* then fetched account 3 and recorded its review.
C31_Witness ==
  /\ BatchOver
  /\ accounts[2].is_active /\ ~KnownKind(2) /\ accounts[2].last_sync = <<>>
  /\ accounts[3].is_active /\ FetchedNow(3) /\ CreatedNow(3) # {}

\* The active rules of the owner of account a.
OwnerActiveRules(ruleRows, accts, a) ==
  {r \in DOMAIN ruleRows :
     ruleRows[r].is_active /\ ruleRows[r].user_id = accts[a].user_id}

\* C32: the rule the review loop of an account holds is an active rule of
\* the account's owner, the same one from one review of the account to the
\* next, and every row the loop stores was matched and gated by that rule:
\* generation was called exactly if the rule matches the row, and a reply
\* is pending exactly if the rule or the rating asks for moderation.
C32_RuleSelection ==
  [][ /\ proc'[1].pc \in {"review", "sending"} =>
           /\ proc'[1].rule \in OwnerActiveRules(rules', accounts',
                                                 proc'[1].acctList[proc'[1].ai])
           /\ proc[1].pc \in {"review", "sending"} =>
                /\ proc'[1].rule = proc[1].rule
                /\ proc'[1].ai = proc[1].ai
      /\ Len(reviews') > Len(reviews) =>
           LET i    == Len(reviews')
               rule == rules[proc[1].rule]
               \* the row as the session holds it after the step
               held == IF i \in DOMAIN dirty'[1] THEN dirty'[1][i] ELSE reviews'[i]
           IN /\ proc[1].rule \in OwnerActiveRules(rules, accounts,
                                                  reviews'[i].marketplace_account_id)
              /\ (calls'[i].gen = 1) <=> RefMatches(reviews'[i], rule)
              /\ calls'[i].gen_ok =>
                   /\ held.moderation_status \in {"pending", "auto"}
                   /\ (held.moderation_status = "pending")
                        <=> (rule.require_moderation \/ held.rating <= 3)
    ]_vars

\* In one batch both reviews of the Wildberries account were put to the
\* rule of user 1, which comes after the other two rules in the table: one
\* matched and is pending, the other did not match.
C32_Witness ==
  /\ BatchOver
  /\ rules[3].user_id = 1 /\ rules[3].is_active
  /\ \E i, j \in CreatedNow(1) :
       /\ calls[i].gen_ok /\ reviews[i].moderation_status = "pending"
       /\ calls[j].gen = 0 /\ ~RefMatches(reviews[j], rules[3])

\* C33: a review's response_sent turns true only in a step that posted a
\* submit for this review to its account's marketplace and got it accepted,
\* and sent_at is set in that step; a step whose submit is refused, or that
\* makes none, leaves response_sent false and sent_at unset.
C33_SentMeansSubmitted ==
  [][ \A i \in DOMAIN reviews' :
        LET before == IF i \in DOMAIN reviews THEN reviews[i].response_sent ELSE FALSE
            a      == reviews'[i].marketplace_account_id
            posted == /\ i \in DOMAIN calls
                      /\ calls'[i].posts = calls[i].posts + 1
                      /\ proc[1].pc = "sending" /\ proc[1].cur = i
                      /\ proc[1].acctList[proc[1].ai] = a
                      /\ KnownKind(a)
            taken  == posted /\ reviews'[i].external_id[1] \in answered'[a]
        IN /\ (reviews'[i].response_sent /\ ~before) =>
                (taken /\ reviews'[i].sent_at = Now)
           /\ ~taken => (reviews'[i].response_sent = before)
           /\ reviews'[i].response_sent <=> (reviews'[i].sent_at # <<>>)
    ]_vars

\* The submit for one review was refused and the row is left unsent, the
\* submit for another was accepted and the row is sent, in the same batch.
C33_Witness ==
  \E i, j \in RowIds :
    /\ calls[i].posts = 1 /\ ~reviews[i].response_sent /\ reviews[i].sent_at = <<>>
    /\ reviews[i].external_id[1] \notin answered[reviews[i].marketplace_account_id]
    /\ calls[j].posts = 1 /\ reviews[j].response_sent /\ reviews[j].sent_at = Now
    /\ reviews[i].created_at = Now

\* What is left of the batch: accounts not finished, whether the current
\* account's fetch is still to come, reviews of the account not finished,
\* and whether the current review's submit is still to come.
BatchMeasure(pr) ==
  IF pr.pc = "idle" THEN <<0, 0, 0, 0>>
  ELSE << Len(pr.acctList) - pr.ai + 1,
          IF pr.pc = "fetching" THEN 1 ELSE 0,
          Len(pr.queue),
          IF pr.pc = "review" THEN 1 ELSE 0 >>

LexLess(m, n) ==
  \E k \in 1..4 : m[k] < n[k] /\ \A j \in 1..(k - 1) : m[j] = n[j]

\* A step of the batch that is running.
BatchStep ==
  \/ FetchFails(1)
  \/ FetchUnknown(1)
  \/ Fetch(1, FALSE, FALSE)
  \/ \E reply \in ProviderReplies : ProcessReview(1, reply)
  \/ \E accepted \in BOOLEAN : SendResponse(1, accepted)

\* The event loop resumes the batch's coroutine when the call it awaits has
\* returned or raised, which every request does within the client's timeout.
SpecAcctsFair == SpecAccts /\ WF_vars(BatchStep)

\* A step from a state of a running batch: one is possible, it brings the
\* batch nearer its end, it goes through the active accounts in turn, each
\* once, and through the new reviews of an account in turn, each once, and
\* it ends the batch only after the last account.
BatchAdvances ==
      proc[1].pc # "idle" =>
        /\ ENABLED BatchStep
        /\ LexLess(BatchMeasure(proc'[1]), BatchMeasure(proc[1]))
        /\ \A k, l \in DOMAIN proc[1].acctList :
             proc[1].acctList[k] = proc[1].acctList[l] => k = l
        /\ {proc[1].acctList[k] : k \in DOMAIN proc[1].acctList}
             = {a \in AccountIds : accounts[a].is_active}
        /\ proc'[1].pc # "idle" =>
             /\ proc'[1].acctList = proc[1].acctList
             /\ proc'[1].ai \in {proc[1].ai, proc[1].ai + 1}
        /\ proc'[1].pc = "idle" => proc[1].ai = Len(proc[1].acctList)
        /\ (proc[1].pc \in {"review", "sending"}
              /\ proc'[1].pc \in {"review", "sending"}) =>
             /\ proc'[1].ai = proc[1].ai
             /\ proc'[1].queue
                  = IF proc'[1].pc = "sending" THEN proc[1].queue
                    ELSE Tail(proc[1].queue)
        /\ (proc[1].pc \in {"review", "sending"}
              /\ proc'[1].pc \notin {"review", "sending"}) =>
             Len(proc[1].queue) = 1

\* C34: whatever fails, a batch that runs comes to its end, by steps that
\* handle each active account once and each new review of it once.
C34_BatchTermination ==
  /\ (proc[1].pc # "idle") ~> (proc[1].pc = "idle")
  /\ [][BatchAdvances]_vars

\* A batch over two accounts ended although a fetch, a generation and a
\* submit failed in it.
C34_Witness ==
  /\ BatchOver /\ BatchRan
  /\ fetchFailed # {}
  /\ \E i, j \in RowIds :
       /\ reviews[i].created_at = Now /\ reviews[j].created_at = Now
       /\ calls[i].gen = 1 /\ ~calls[i].gen_ok
       /\ calls[j].posts = 1 /\ ~reviews[j].response_sent

\* C35: from one step to the next the table of Review rows loses no row, no
\* row's processed or response_sent goes from true to false, and no row's
\* account, external_id or rating changes.
C35_MonotonicLifecycle ==
  [][ /\ Len(reviews') >= Len(reviews)
      /\ \A i \in DOMAIN reviews :
           i \in DOMAIN reviews' =>
             /\ reviews[i].processed => reviews'[i].processed
             /\ reviews[i].response_sent => reviews'[i].response_sent
             /\ reviews'[i].marketplace_account_id = reviews[i].marketplace_account_id
             /\ reviews'[i].external_id = reviews[i].external_id
             /\ reviews'[i].rating = reviews[i].rating
    ]_vars

\* A later batch has run over a table that holds a sent row and a row whose
\* submit failed, and has added a row.
C35_Witness ==
  /\ BatchOver
  /\ \E i, j, k \in RowIds :
       /\ reviews[i].response_sent /\ reviews[i].created_at # Now
       /\ reviews[j].processed /\ ~reviews[j].response_sent /\ calls[j].posts = 1
       /\ reviews[k].created_at = Now

\* C36: for a row the active rule of its owner does not match, no generation
\* call was made, no submit either, and the row's response_text,
\* tokens_used and cost_rub are unset and processed is false, in the table
\* and in the session.
C36_NoGenerationForSkipped ==
  \A i \in RowIds :
    (\A r \in OwnerActiveRules(rules, accounts, reviews[i].marketplace_account_id) :
        ~RefMatches(reviews[i], rules[r])) =>
      /\ calls[i].gen = 0 /\ calls[i].usage = <<>> /\ calls[i].cost = <<>>
      /\ calls[i].send = 0
      /\ \A row \in {reviews[i], View(1, i)} :
           /\ row.tokens_used = <<>> /\ row.cost_rub = <<>>
           /\ row.response_text = <<>> /\ ~row.processed

\* In one batch a review of the account was skipped by the matcher and
\* another of the same account went to generation and got its token count.
C36_Witness ==
  \E i, j \in CreatedNow(1) :
    /\ ~RefMatches(reviews[i], rules[FirstActiveRule(rules, accounts[1].user_id)])
    /\ calls[i].gen = 0 /\ reviews[i].tokens_used = <<>>
    /\ calls[j].gen = 1 /\ calls[j].gen_ok /\ reviews[j].tokens_used # <<>>

C38_ClientLifecycle ==
  /\ proc[1].client = IF proc[1].pc = "sending" THEN 1 ELSE 0
  /\ BatchOver => proc[1].client = 0

\* A batch is over in which the fetch of one account failed and the submit
\* for a review of another was refused, after a batch in which a submit was
\* accepted; no client is open.
C38_Witness ==
  /\ BatchOver
  /\ fetchFailed # {}
  /\ proc[1].client = 0
  /\ \E i, j \in RowIds :
       /\ reviews[i].created_at = Now
       /\ calls[i].posts = 1 /\ ~View(1, i).response_sent
       /\ calls[j].posts = 1 /\ reviews[j].response_sent
====
